---- MODULE Spec2Model ----
(***************************************************************************)
(* A model of server/server.go: the login handler (directory bind, token   *)
(* issuance, session-record reconciliation in the "users" collection), the *)
(* post handlers and deleteSponsor, with the encodings the handlers rely   *)
(* on (bson struct codec, JSON claims, Unix seconds, strconv.Atoi).        *)
(***************************************************************************)
EXTENDS Integers, Sequences, FiniteSets, TLC

VARIABLES
    alive,      \* the server process is running (log.Fatal has not been called)
    now,        \* wall clock, in ticks
    advances,   \* number of clock steps taken so far
    users,      \* the "users" collection: a sequence of documents
    req,        \* one record per in-flight login handler goroutine
    logins,     \* login calls started so far
    inserted,   \* history: per zid, InsertOne calls that login made for it
    posts,      \* the "posts" collection: a sequence of documents
    out,        \* the outcome of the last post/sponsor handler call
    tk          \* token round trip: inputs, issued token and last verdict

vars == <<alive, now, advances, users, req, logins, inserted, posts, out, tk>>

(***************************************************************************)
(* Bounds of the model.                                                    *)
(***************************************************************************)
MaxReqs == 2            \* concurrent login handlers
MaxLogins == 2          \* login calls per run
MaxAdvances == 1        \* clock steps per run while logins are served
StartTime == 2000       \* the tick at which the server starts
MaxPosts == 11          \* documents the posts collection may hold

Reqs == 1..MaxReqs
ZIDs == {"z1111111", "z2222222"}

(***************************************************************************)
(* Time.  time.Time has sub-second resolution; Unix() truncates to whole   *)
(* seconds.                                                                *)
(***************************************************************************)
TicksPerSecond == 2
Hour == 3600 * TicksPerSecond

Unix(t) == t \div TicksPerSecond

\* time.Hour * 24, the lifetime login gives its token
TokenTTL == Hour * 24

(***************************************************************************)
(* sha256.Sum256([]byte(zid)), taken as collision free.                    *)
(***************************************************************************)
Sum256(zid) == <<"sha256", zid>>

(***************************************************************************)
(* The directory: Bind succeeds for the password the directory holds.      *)
(***************************************************************************)
DirectoryPassword(zid) == <<"pw", zid>>
Passwords(zid) == {DirectoryPassword(zid), <<"pw", "wrong">>}

(***************************************************************************)
(* jwt-go.  A token string is "header.payload.signature": a sequence of    *)
(* three segments; any other string is malformed.  The payload is the JSON *)
(* encoding of Claims: encoding/json writes exported fields only, so of    *)
(* hashedZID, firstName and the embedded StandardClaims only ExpiresAt     *)
(* ("exp") is written.                                                     *)
(***************************************************************************)
jwtKey == "secret_text"
EmptyString == <<>>

Claims(hashedZID, firstName, expiresAt) ==
    [hashedZID |-> hashedZID, firstName |-> firstName, ExpiresAt |-> expiresAt]

ClaimsExported == {"ExpiresAt"}

MarshalClaims(claims) ==
    [exp |-> IF "ExpiresAt" \in ClaimsExported THEN claims.ExpiresAt ELSE 0]

HS256(key, header, payload) == <<key, header, payload>>

SignedString(header, payload, key) == <<header, payload, HS256(key, header, payload)>>

\* StandardClaims.Valid: exp = 0 means "no expiry", otherwise now <= exp
ClaimsValid(payload, t) == payload.exp = 0 \/ Unix(t) <= payload.exp

NilToken == [isNil |-> TRUE, Valid |-> FALSE, header |-> "", payload |-> [exp |-> 0]]

\* jwt.ParseWithClaims at time t: nil for a string that is not three segments
ParseWithClaims(tokenString, key, t) ==
    IF Len(tokenString) # 3
    THEN NilToken
    ELSE [isNil |-> FALSE,
          Valid |-> /\ tokenString[3] = HS256(key, tokenString[1], tokenString[2])
                    /\ ClaimsValid(tokenString[2], t),
          header |-> tokenString[1],
          payload |-> tokenString[2]]

\* IssueToken with the lifetime left out of the expiry
IssueTokenNoTTL(hashedZID, firstName, ttl, t) ==
    SignedString("HS256", MarshalClaims(Claims(hashedZID, firstName, Unix(t))), jwtKey)

\* login, lines 181-190: expirationTime := time.Now().Add(ttl); ExpiresAt: Unix()
IssueToken(hashedZID, firstName, ttl, t) ==
    SignedString("HS256", MarshalClaims(Claims(hashedZID, firstName, Unix(t + ttl))), jwtKey)

\* the token login mints: no first name reaches it (the search asks for
\* givenName, the claim reads firstName), and its lifetime is 24 hours
LoginToken(zid, t) == IssueToken(Sum256(zid), "", TokenTTL, t)

(***************************************************************************)
(* bson.  A document is the set of keys it holds and their values.  The    *)
(* struct codec writes and reads exported fields only; User and Post have  *)
(* none (userID, userToken, role, postID, ... are lower case).             *)
(***************************************************************************)
UserFields == {"userID", "userToken", "role"}
UserExported == {}

Doc(has, userID, userToken, role) ==
    [has |-> has,
     userID |-> IF "userID" \in has THEN userID ELSE EmptyString,
     userToken |-> IF "userToken" \in has THEN userToken ELSE EmptyString,
     role |-> IF "role" \in has THEN role ELSE ""]

User(userID, userToken, role) == [userID |-> userID, userToken |-> userToken, role |-> role]

\* InsertOne(ctx, user): the document the codec produces from a User value
MarshalUser(user) == Doc(UserExported, user.userID, user.userToken, user.role)

\* Decode(&isValidUser): a fresh User, exported fields filled from the document
DecodeUser(doc) ==
    [isNil |-> FALSE,
     userID |-> IF "userID" \in UserExported \cap doc.has THEN doc.userID ELSE EmptyString,
     userToken |-> IF "userToken" \in UserExported \cap doc.has THEN doc.userToken ELSE EmptyString,
     role |-> IF "role" \in UserExported \cap doc.has THEN doc.role ELSE ""]

NilUser == [isNil |-> TRUE, userID |-> EmptyString, userToken |-> EmptyString, role |-> ""]

\* filter bson.D{{"userID", v}}
MatchesUserID(doc, v) == "userID" \in doc.has /\ doc.userID = v

Matching(coll, v) == {i \in 1..Len(coll) : MatchesUserID(coll[i], v)}

FirstMatch(coll, v) == CHOOSE i \in Matching(coll, v) : \A j \in Matching(coll, v) : i <= j

\* FindOne(...).Decode(&isValidUser): the pointer stays nil when nothing matches
FindOne(coll, v) ==
    IF Matching(coll, v) = {} THEN NilUser ELSE DecodeUser(coll[FirstMatch(coll, v)])

\* UpdateOne(filter, {$set: {userToken: tok}}): the first match, if any
UpdateOne(coll, v, tok) ==
    IF Matching(coll, v) = {}
    THEN coll
    ELSE [coll EXCEPT ![FirstMatch(coll, v)] =
            [@ EXCEPT !.has = @ \cup {"userToken"}, !.userToken = tok]]

NoDoc == Doc({}, EmptyString, EmptyString, "")

\* history: the raw document a lookup matched
RawFound(coll, v) == IF Matching(coll, v) = {} THEN NoDoc ELSE coll[FirstMatch(coll, v)]

(***************************************************************************)
(* Login handler state.                                                    *)
(***************************************************************************)
NoResp == [kind |-> "none", status |-> 0, token |-> EmptyString]
PanicResp == [kind |-> "panic", status |-> 0, token |-> EmptyString]
JSONResp(status, token) == [kind |-> "json", status |-> status, token |-> token]

IdleReq ==
    [pc |-> "idle", zid |-> "", password |-> EmptyString, tokenString |-> EmptyString,
     issuedAt |-> 0, isValidUser |-> NilUser, found |-> NoDoc, branch |-> "",
     raced |-> FALSE, inserts |-> 0, updates |-> 0, resp |-> NoResp]

InFlight(r) == req[r].pc \in {"bind", "search", "find", "reconcile", "respond"}

\* records seeded in the collection before the server starts
SeedTokens ==
    { LoginToken("z1111111", StartTime),
      IssueToken(Sum256("z1111111"), "", 0, StartTime - TicksPerSecond),
      <<"HS256", [exp |-> Unix(StartTime + TokenTTL)], <<"tampered">> >> }

SeedUsers ==
    {<<>>} \cup {<<Doc(UserFields, Sum256("z1111111"), t, "user")>> : t \in SeedTokens}

NoOut == [op |-> "none", kind |-> "none", status |-> 0, idParam |-> "", cat |-> "", n |-> 0,
          failed |-> FALSE]
NoTk == [phase |-> "off", zid |-> "", firstName |-> "", ttl |-> 0,
         byLogin |-> FALSE, issuedAt |-> 0, token |-> EmptyString,
         verifiedAt |-> 0, isNil |-> FALSE, valid |-> FALSE]

Init ==
    /\ alive = TRUE
    /\ now = StartTime
    /\ advances = 0
    /\ users \in SeedUsers
    /\ req = [r \in Reqs |-> IdleReq]
    /\ logins = 0
    /\ inserted = [z \in ZIDs |-> 0]
    /\ posts = <<>>
    /\ out = NoOut
    /\ tk = NoTk

\* log.Fatal: the process exits
Fatal(r, where) ==
    /\ alive' = FALSE
    /\ req' = [req EXCEPT ![r].pc = where]

\* time passes between the steps of the handlers: a token lifetime at a time
Advance ==
    /\ alive
    /\ advances < MaxAdvances
    /\ now' = now + TokenTTL
    /\ advances' = advances + 1
    /\ UNCHANGED <<alive, users, req, logins, inserted, posts, out, tk>>

\* lines 145-154: ldap.Dial, then the form values are read
loginDial(r) ==
    /\ alive
    /\ req[r].pc \in {"idle", "done"}
    /\ logins < MaxLogins
    /\ logins' = logins + 1
    /\ \E zid \in ZIDs, dialed \in BOOLEAN : \E password \in Passwords(zid) :
         IF dialed
         THEN /\ req' = [req EXCEPT ![r] =
                    [IdleReq EXCEPT !.pc = "bind", !.zid = zid, !.password = password]]
              /\ alive' = alive
         ELSE Fatal(r, "fatal_dial")
    /\ UNCHANGED <<now, advances, users, inserted, posts, out, tk>>

\* lines 156-159: l.Bind
loginBind(r) ==
    /\ alive
    /\ req[r].pc = "bind"
    /\ IF req[r].password = DirectoryPassword(req[r].zid)
       THEN /\ req' = [req EXCEPT ![r].pc = "search"]
            /\ alive' = alive
       ELSE Fatal(r, "fatal_bind")
    /\ UNCHANGED <<now, advances, users, logins, inserted, posts, out, tk>>

\* lines 161-190: l.Search, Entries[0], the token is minted
loginSearch(r) ==
    /\ alive
    /\ req[r].pc = "search"
    /\ \E result \in {"entry", "empty", "err"} :
         CASE result = "err" -> Fatal(r, "fatal_search")
           [] result = "empty" ->
                /\ req' = [req EXCEPT ![r].pc = "done", ![r].resp = PanicResp]
                /\ alive' = alive
           [] OTHER ->
                /\ req' = [req EXCEPT
                        ![r].pc = "find",
                        ![r].issuedAt = now,
                        ![r].tokenString = LoginToken(req[r].zid, now)]
                /\ alive' = alive
    /\ UNCHANGED <<now, advances, users, logins, inserted, posts, out, tk>>

\* lines 199-201: FindOne(userFilter).Decode(&isValidUser); err is assigned
\* and never read, so a failed lookup leaves isValidUser nil.  found and
\* raced are history: the document the filter matches, and whether another
\* login for the same zid is in flight.
loginFindOne(r) ==
    /\ alive
    /\ req[r].pc = "find"
    /\ \E ok \in BOOLEAN :
         LET h == Sum256(req[r].zid)
             others == {q \in Reqs \ {r} : InFlight(q) /\ req[q].zid = req[r].zid}
         IN req' = [q \in Reqs |->
                      IF q = r
                      THEN [req[r] EXCEPT !.pc = "reconcile",
                                          !.isValidUser =
                                              IF ok THEN FindOne(users, h) ELSE NilUser,
                                          !.found = RawFound(users, h),
                                          !.raced = (others # {})]
                      ELSE IF q \in others THEN [req[q] EXCEPT !.raced = TRUE]
                      ELSE req[q]]
    /\ UNCHANGED <<alive, now, advances, users, logins, inserted, posts, out, tk>>

\* loginReconcile with the update no longer under the else: a first login
\* inserts its record and then updates it as well
loginReconcileInsertThenUpdate(r) ==
    /\ alive
    /\ req[r].pc = "reconcile"
    /\ LET h == Sum256(req[r].zid)
           user == User(h, req[r].tokenString, "user")
       IN IF req[r].isValidUser.isNil
          THEN /\ users' = UpdateOne(Append(users, MarshalUser(user)), h, req[r].tokenString)
               /\ inserted' = [inserted EXCEPT ![req[r].zid] = @ + 1]
               /\ req' = [req EXCEPT ![r].pc = "respond", ![r].inserts = @ + 1,
                                     ![r].updates = @ + 1, ![r].branch = "absent"]
          ELSE /\ req' = [req EXCEPT ![r].pc = "done", ![r].resp = PanicResp,
                                     ![r].branch = "invalid"]
               /\ UNCHANGED <<users, inserted>>
    /\ UNCHANGED <<alive, now, advances, logins, posts, out, tk>>

\* lines 203-227: insert, or check the stored token and update.  branch is
\* history: what the collection held for this zid (nothing, a record whose
\* stored token verifies, a record whose stored token does not).
loginReconcile(r) ==
    /\ alive
    /\ req[r].pc = "reconcile"
    /\ LET h == Sum256(req[r].zid)
           user == User(h, req[r].tokenString, "user")
           stored == ParseWithClaims(req[r].found.userToken, jwtKey, now)
           branch == IF "userID" \notin req[r].found.has THEN "absent"
                     ELSE IF stored.Valid THEN "valid" ELSE "invalid"
           decodedToken == ParseWithClaims(req[r].isValidUser.userToken, jwtKey, now)
           decodedTokenString ==
               SignedString(decodedToken.header, decodedToken.payload, jwtKey)
       IN IF req[r].isValidUser.isNil
          THEN \E ok \in BOOLEAN :
                 IF ok
                 THEN /\ users' = Append(users, MarshalUser(user))
                      /\ inserted' = [inserted EXCEPT ![req[r].zid] = @ + 1]
                      /\ req' = [req EXCEPT ![r].pc = "respond", ![r].inserts = @ + 1,
                                            ![r].branch = branch]
                      /\ alive' = alive
                 ELSE /\ Fatal(r, "fatal_insert")
                      /\ UNCHANGED <<users, inserted>>
          ELSE IF decodedToken.isNil
          THEN \* decodedToken.SignedString on a nil *Token: the handler panics
               /\ req' = [req EXCEPT ![r].pc = "done", ![r].resp = PanicResp,
                                     ![r].branch = branch]
               /\ UNCHANGED <<alive, users, inserted>>
          ELSE IF ~decodedToken.Valid
          THEN \E ok \in BOOLEAN :
                 IF ok
                 THEN /\ users' = UpdateOne(users, h, decodedTokenString)
                      /\ req' = [req EXCEPT ![r].pc = "respond", ![r].updates = @ + 1,
                                            ![r].branch = branch]
                      /\ UNCHANGED <<alive, inserted>>
                 ELSE /\ Fatal(r, "fatal_update")
                      /\ UNCHANGED <<users, inserted>>
          ELSE /\ req' = [req EXCEPT ![r].pc = "respond", ![r].branch = branch]
               /\ UNCHANGED <<alive, users, inserted>>
    /\ UNCHANGED <<now, advances, logins, posts, out, tk>>

\* lines 229-231: c.JSON(200, {"token": tokenString})
loginRespond(r) ==
    /\ alive
    /\ req[r].pc = "respond"
    /\ req' = [req EXCEPT ![r].pc = "done",
                          ![r].resp = JSONResp(200, req[r].tokenString)]
    /\ UNCHANGED <<alive, now, advances, users, logins, inserted, posts, out, tk>>

login(r) ==
    \/ loginDial(r)
    \/ loginBind(r)
    \/ loginSearch(r)
    \/ loginFindOne(r)
    \/ loginReconcile(r)
    \/ loginRespond(r)

Next ==
    \/ Advance
    \/ \E r \in Reqs : login(r)

Spec == Init /\ [][Next]_vars

(***************************************************************************)
(* The post handlers and deleteSponsor.  Each makes one record-store call, *)
(* so each is one step.                                                    *)
(***************************************************************************)
DefaultLimit == 10

\* the values of the "id" query parameter tried: absent, non-numeric, numbers
IdParams == {"", "abc", "5", "10", "-2"}
Categories == {"", "news"}

\* strconv.Atoi with its error dropped: 0 for a string that is no number
Atoi(s) ==
    CASE s = "5" -> 5
      [] s = "10" -> 10
      [] s = "-2" -> -2
      [] OTHER -> 0

PostFields == {"postID", "postCategory"}
PostExported == {}

Post(postID, postCategory) == [postID |-> postID, postCategory |-> postCategory]

\* the document the codec produces from a Post value
MarshalPost(post) ==
    [has |-> PostExported,
     postID |-> IF "postID" \in PostExported THEN post.postID ELSE 0,
     postCategory |-> IF "postCategory" \in PostExported THEN post.postCategory ELSE 0]

\* a filter element {key, value}: a document matches when it holds that key
\* with that value; only keys a Post document can hold can match
MatchesKey(doc, key, value) ==
    /\ key \in doc.has
    /\ \/ key = "postID" /\ doc.postID = value
       \/ key = "postCategory" /\ doc.postCategory = value

Abs(n) == IF n < 0 THEN -n ELSE n

\* a cursor under FindOptions.SetLimit(limit): 0 is "no limit", a negative
\* limit returns at most |limit| documents
Limited(docs, limit) ==
    IF limit = 0 \/ Abs(limit) >= Len(docs) THEN docs ELSE SubSeq(docs, 1, Abs(limit))

\* lines 258-263
FindLimit(count) == IF count # DefaultLimit THEN count ELSE DefaultLimit

PostOut(op, kind, status, idParam, cat, n, failed) ==
    [op |-> op, kind |-> kind, status |-> status, idParam |-> idParam, cat |-> cat,
     n |-> n, failed |-> failed]

\* log.Fatal in a post or sponsor handler
FatalOut(op, idParam, cat) ==
    /\ alive' = FALSE
    /\ out' = PostOut(op, "fatal", 0, idParam, cat, 0, TRUE)

\* lines 235-251
getPost ==
    /\ alive
    /\ \E idParam \in IdParams, category \in Categories :
         LET id == Atoi(idParam)
             test(d) == MatchesKey(d, "postID", id) /\ MatchesKey(d, "category", category)
             hits == SelectSeq(posts, test)
         IN IF hits = <<>>
            THEN FatalOut("getPost", idParam, category)   \* ErrNoDocuments
            ELSE /\ out' = PostOut("getPost", "json", 200, idParam, category, 1, FALSE)
                 /\ alive' = alive
    /\ UNCHANGED <<now, advances, users, req, logins, inserted, posts, tk>>

\* lines 253-295
getAllPosts ==
    /\ alive
    /\ \E idParam \in IdParams, cat \in Categories, ok \in BOOLEAN :
         LET count == Atoi(idParam)
             test(d) == MatchesKey(d, "post_category", cat)
             hits == IF cat = "" THEN posts ELSE SelectSeq(posts, test)
             found == Limited(hits, FindLimit(count))
         IN IF ok
            THEN /\ out' = PostOut("getAllPosts", "json", 200, idParam, cat, Len(found), FALSE)
                 /\ alive' = alive
            ELSE FatalOut("getAllPosts", idParam, cat)
    /\ UNCHANGED <<now, advances, users, req, logins, inserted, posts, tk>>

\* lines 297-324
newPost ==
    /\ alive
    /\ Len(posts) < MaxPosts
    /\ \E idParam \in IdParams, ok \in BOOLEAN :
         IF ok
         THEN /\ posts' = Append(posts, MarshalPost(Post(Atoi(idParam), 0)))
              /\ out' = PostOut("newPost", "json", 200, idParam, "", 0, FALSE)
              /\ alive' = alive
         ELSE /\ FatalOut("newPost", idParam, "")
              /\ posts' = posts
    /\ UNCHANGED <<now, advances, users, req, logins, inserted, tk>>

\* DeleteOne: the first matching document, if any, is removed
DeleteOne(coll, key, value) ==
    IF \E i \in 1..Len(coll) : MatchesKey(coll[i], key, value)
    THEN LET i == CHOOSE k \in 1..Len(coll) :
                    /\ MatchesKey(coll[k], key, value)
                    /\ \A j \in 1..(k - 1) : ~MatchesKey(coll[j], key, value)
         IN SubSeq(coll, 1, i - 1) \o SubSeq(coll, i + 1, Len(coll))
    ELSE coll

\* lines 363-376
deletePost ==
    /\ alive
    /\ \E idParam \in IdParams, ok \in BOOLEAN :
         IF ok
         THEN /\ posts' = DeleteOne(posts, "postID", Atoi(idParam))
              /\ out' = PostOut("deletePost", "json", 200, idParam, "", 0, FALSE)
              /\ alive' = alive
         ELSE /\ FatalOut("deletePost", idParam, "")
              /\ posts' = posts
    /\ UNCHANGED <<now, advances, users, req, logins, inserted, tk>>

SponsorIds == {"not-a-uuid", "123e4567-e89b-12d3-a456-426614174000"}

\* uuid.Parse succeeds on a well-formed id
ParsesAsUUID(id) == id = "123e4567-e89b-12d3-a456-426614174000"

\* lines 475-489: uuid.Must panics on a malformed id; the sponsors collection
\* holds no document with a sponsorID (Sponsor has no exported field), so
\* DeleteOne removes nothing
deleteSponsor ==
    /\ alive
    /\ \E id \in SponsorIds, ok \in BOOLEAN :
         IF ~ParsesAsUUID(id)
         THEN /\ out' = PostOut("deleteSponsor", "panic", 0, id, "", 0, TRUE)
              /\ alive' = alive
         ELSE IF ok
         THEN /\ out' = PostOut("deleteSponsor", "json", 200, id, "", 0, FALSE)
              /\ alive' = alive
         ELSE FatalOut("deleteSponsor", id, "")
    /\ UNCHANGED <<now, advances, users, req, logins, inserted, posts, tk>>

PostsInit ==
    /\ alive = TRUE
    /\ now = StartTime
    /\ advances = 0
    /\ users = <<>>
    /\ req = [r \in Reqs |-> IdleReq]
    /\ logins = 0
    /\ inserted = [z \in ZIDs |-> 0]
    /\ posts = <<>>
    /\ out = NoOut
    /\ tk = NoTk

PostsNext ==
    \/ getPost
    \/ getAllPosts
    \/ newPost
    \/ deletePost
    \/ deleteSponsor

PostsSpec == PostsInit /\ [][PostsNext]_vars

(***************************************************************************)
(* Token round trip: a token is issued at one instant and verified at      *)
(* later ones.                                                             *)
(***************************************************************************)
MaxTokenAdvances == 3

TokenTTLs == {TicksPerSecond, TokenTTL}
FirstNames == {"", "Ada"}

TokenInit ==
    /\ alive = TRUE
    /\ now \in {StartTime, StartTime + 1}
    /\ advances = 0
    /\ users = <<>>
    /\ req = [r \in Reqs |-> IdleReq]
    /\ logins = 0
    /\ inserted = [z \in ZIDs |-> 0]
    /\ posts = <<>>
    /\ out = NoOut
    /\ \E z \in ZIDs, n \in FirstNames, ttl \in TokenTTLs, byLogin \in BOOLEAN :
         tk = [NoTk EXCEPT !.phase = "ready", !.zid = z,
                           !.firstName = IF byLogin THEN "" ELSE n,
                           !.ttl = IF byLogin THEN TokenTTL ELSE ttl,
                           !.byLogin = byLogin]

\* lines 178-190
tokenIssue ==
    /\ tk.phase = "ready"
    /\ tk' = [tk EXCEPT !.phase = "issued", !.issuedAt = now,
                        !.token = IF tk.byLogin
                                  THEN LoginToken(tk.zid, now)
                                  ELSE IssueToken(Sum256(tk.zid), tk.firstName, tk.ttl, now)]
    /\ UNCHANGED <<alive, now, advances, users, req, logins, inserted, posts, out>>

\* lines 209-215
tokenVerify ==
    /\ tk.phase \in {"issued", "verified"}
    /\ LET decodedToken == ParseWithClaims(tk.token, jwtKey, now)
       IN tk' = [tk EXCEPT !.phase = "verified", !.verifiedAt = now,
                           !.isNil = decodedToken.isNil, !.valid = decodedToken.Valid]
    /\ UNCHANGED <<alive, now, advances, users, req, logins, inserted, posts, out>>

tokenAdvance ==
    /\ advances < MaxTokenAdvances
    /\ \E d \in {1, TokenTTL} : now' = now + d
    /\ advances' = advances + 1
    /\ UNCHANGED <<alive, users, req, logins, inserted, posts, out, tk>>

TokenNext ==
    \/ tokenIssue
    \/ tokenVerify
    \/ tokenAdvance

TokenSpec == TokenInit /\ [][TokenNext]_vars

(***************************************************************************)
(* The claims.                                                             *)
(***************************************************************************)
CorrectPassword(r) == req[r].password = DirectoryPassword(req[r].zid)

\* the login in slot r has been through the bind
Bound(r) == req[r].pc \notin {"idle", "bind", "fatal_dial"}

\* the login in slot r has been through the reconciliation of lines 203-227
Reconciled(r) == req[r].branch # ""

\* the lookup of the login in slot r returned the record of its zid
Looked(r) == "userID" \in req[r].found.has /\ ~req[r].isValidUser.isNil

\* InsertOne and UpdateOne calls the login in slot r has made
Writes(r) == req[r].inserts + req[r].updates

SessionRecord(zid, token) == Doc(UserFields, Sum256(zid), token, "user")

\* C1: a login whose credentials the directory rejects leaves the session
\* store alone, gets an authentication error response, and the server keeps
\* running.
C1_RejectedLoginGetsError ==
    \A r \in Reqs :
        (Bound(r) /\ ~CorrectPassword(r)) =>
            /\ alive
            /\ Writes(r) = 0
            /\ req[r].resp.kind = "json"
            /\ req[r].resp.status >= 400

\* C2: a login with valid credentials that finds a record whose stored token
\* fails verification makes exactly one update, after which the record holds
\* the freshly issued token, the one returned to the caller.
C2_InvalidStoredTokenIsReplaced ==
    \A r \in Reqs :
        (Reconciled(r) /\ Looked(r) /\ req[r].branch = "invalid") =>
            /\ req[r].inserts = 0
            /\ req[r].updates = 1
            /\ (req[r].pc = "respond" /\ ~req[r].raced) =>
                   RawFound(users, Sum256(req[r].zid)).userToken = req[r].tokenString
            /\ req[r].pc = "done" => req[r].resp = JSONResp(200, req[r].tokenString)

\* C3: a login with valid credentials that finds no record inserts exactly
\* one, holding the hash of the identifier, the freshly issued token and the
\* role "user", and responds with that token.
C3_FirstLoginInsertsRecord ==
    \A r \in Reqs :
        (Reconciled(r) /\ req[r].branch = "absent") =>
            /\ req[r].inserts = 1
            /\ req[r].updates = 0
            /\ req[r].pc = "respond" =>
                   \E i \in 1..Len(users) :
                       users[i] = SessionRecord(req[r].zid, req[r].tokenString)
            /\ req[r].pc = "done" => req[r].resp = JSONResp(200, req[r].tokenString)

\* C4: a login with valid credentials that finds a record whose stored token
\* verifies leaves the store as it is and still responds with the freshly
\* issued token, which differs from the stored one.
C4_ValidStoredTokenIsKept ==
    \A r \in Reqs :
        (Reconciled(r) /\ Looked(r) /\ req[r].branch = "valid") =>
            /\ Writes(r) = 0
            /\ req[r].tokenString # req[r].found.userToken
            /\ req[r].pc = "done" => req[r].resp = JSONResp(200, req[r].tokenString)

\* C5: whatever the interleaving of logins, a record is inserted at most
\* once per identifier and the store holds at most one record per subject
\* hash.
C5_OneRecordPerIdentifier ==
    \A z \in ZIDs :
        /\ inserted[z] <= 1
        /\ Cardinality(Matching(users, Sum256(z))) <= 1

\* C6: a failure inside a request handler becomes an HTTP error response for
\* that request and the server stays running.
C6_HandlerFailureIsIsolated ==
    out.failed =>
        /\ alive
        /\ out.kind = "json"
        /\ out.status >= 400

\* the lifetime the round trip is held to: the one asked for, 24 hours for
\* the token login mints
ExpectedTTL == IF tk.byLogin THEN 24 * Hour ELSE tk.ttl

\* C7, as claimed: verifying an issued token reports valid at any time before
\* issueTime + ttl and invalid at any time after it.

C7_ValidBeforeInvalidAfter ==
    tk.phase = "verified" =>
        /\ tk.verifiedAt < tk.issuedAt + ExpectedTTL => tk.valid
        /\ tk.verifiedAt > tk.issuedAt + ExpectedTTL => ~tk.valid

\* C7, amended: verifying an issued token reports valid exactly while the
\* current whole second is not past the whole second of issueTime + ttl (so
\* at any time before issueTime + ttl, and from the second after it on no
\* more); the token login mints has ttl = 24 hours.
C7_ValidUntilExpirySecond ==
    tk.phase = "verified" =>
        /\ ~tk.isNil
        /\ tk.valid <=> Unix(tk.verifiedAt) <= Unix(tk.issuedAt + ExpectedTTL)
        /\ tk.verifiedAt < tk.issuedAt + ExpectedTTL => tk.valid

C7_Witness ==
    /\ tk.phase = "verified"
    /\ tk.byLogin
    /\ tk.verifiedAt > tk.issuedAt + ExpectedTTL
    /\ ~tk.valid

\* the count the claim gives the list: the requested one, 10 when none is
\* given or it is not a number
ClaimedLimit(idParam) == IF idParam \in {"5", "10"} THEN Atoi(idParam) ELSE DefaultLimit

\* C8: the posts list returns at most the requested count of records, and at
\* most 10 when the caller gives no count or a non-numeric one.
C8_ListIsLimited ==
    (out.op = "getAllPosts" /\ out.kind = "json" /\ out.idParam \in {"", "abc", "5", "10"}) =>
        out.n <= ClaimedLimit(out.idParam)

\* C9: a login call writes to the session store at most once in total, one
\* insert or one update and never both, and none before its lookup is done.
C9_AtMostOneWrite ==
    \A r \in Reqs :
        /\ Writes(r) <= 1
        /\ req[r].pc \in {"idle", "bind", "search", "find", "reconcile"} => Writes(r) = 0

C9_Witness ==
    \E r \in Reqs :
        /\ req[r].pc = "done"
        /\ req[r].resp = JSONResp(200, req[r].tokenString)
        /\ Writes(r) = 1
        /\ Len(users) > 0

\* C10: two concurrent logins for one identifier whose stored token is
\* invalid both complete with their own freshly issued token, and the record
\* ends with the token one of them wrote.
C10_ConcurrentRefreshLastWriterWins ==
    \A r1, r2 \in Reqs :
        ( /\ r1 # r2
          /\ req[r1].zid = req[r2].zid
          /\ req[r1].raced /\ req[r2].raced
          /\ Looked(r1) /\ Looked(r2)
          /\ req[r1].branch = "invalid" /\ req[r2].branch = "invalid"
          /\ req[r1].pc = "done" /\ req[r2].pc = "done" ) =>
            /\ req[r1].resp = JSONResp(200, req[r1].tokenString)
            /\ req[r2].resp = JSONResp(200, req[r2].tokenString)
            /\ RawFound(users, Sum256(req[r1].zid)).userToken
                   \in {req[r1].tokenString, req[r2].tokenString}

====
